---- MODULE Spec2Model ----
(***************************************************************************)
(* Invoice CRM dashboard (src/app.py).                                     *)
(*                                                                         *)
(* The program is a Streamlit script: every user interaction re-runs the   *)
(* whole script, which reads the worksheet, builds the in-memory table df, *)
(* applies the filter widgets, shows metrics and, when a button was        *)
(* pressed, writes to the worksheet.  One action of the model is one run   *)
(* of the script.                                                          *)
(*                                                                         *)
(* Representation of values:                                               *)
(*   - a worksheet row is the record get_all_records() returns for it: a   *)
(*     function from column names to cells;                                *)
(*   - a "Date Created" cell is the triple <<y, m, d>> of the numbers      *)
(*     written in it; a triple that is no calendar date is unparsable;     *)
(*   - a Timestamp is a valid triple, NaT is <<>>;                         *)
(*   - an age is <<n>>, NaN is <<>>;                                       *)
(*   - customer names, emails and the search text are sequences of         *)
(*     one-character strings, so that lower() and contains() are computed. *)
(***************************************************************************)
EXTENDS Integers, Sequences, FiniteSets

\* Bounds of the model.
MaxTable == 2      \* rows of a worksheet the first run starts from
MaxRows == 3       \* rows a worksheet may grow to in a session

VARIABLES header,       \* first row of the worksheet: sequence of column names
          rows,         \* data rows of the worksheet, as get_all_records() yields them
          df,           \* in-memory table of the last run
          criteria,     \* values of the filter widgets in the last run
          filtered_df,  \* filtered view of the last run
          error,        \* exception that ended the last run, or "none"
          lastWrite     \* what the last run did to the worksheet

vars == <<header, rows, df, criteria, filtered_df, error, lastWrite>>

----------------------------------------------------------------------------
(* Constants of the script *)

VISIBLE_COLUMNS ==
    <<"Customer name", "Customer email", "Product", "Product Description",
      "Price", "Invoice Link", "Status", "Date Created">>

AgeColumn == "Invoice Age (Days)"

Range(s) == {s[i] : i \in 1..Len(s)}

VisibleSet == Range(VISIBLE_COLUMNS)

\* datetime.today(): the day the session runs on.
TODAY == <<2026, 11, 6>>

NaT == <<>>
NaN == <<>>

----------------------------------------------------------------------------
(* Dates: pd.to_datetime, Timestamp comparison and subtraction *)

IsLeap(y) == (y % 4 = 0) /\ ((y % 100 # 0) \/ (y % 400 = 0))

DaysInMonth(y, m) ==
    IF m = 2 THEN (IF IsLeap(y) THEN 29 ELSE 28)
    ELSE IF m \in {4, 6, 9, 11} THEN 30 ELSE 31

RECURSIVE DaysBeforeMonth(_, _)
DaysBeforeMonth(y, m) ==
    IF m <= 1 THEN 0 ELSE DaysBeforeMonth(y, m - 1) + DaysInMonth(y, m - 1)

DaysBeforeYear(y) ==
    (y - 1) * 365 + ((y - 1) \div 4) - ((y - 1) \div 100) + ((y - 1) \div 400)

\* Day number of a Timestamp (proleptic Gregorian ordinal).
ToOrdinal(ts) == DaysBeforeYear(ts[1]) + DaysBeforeMonth(ts[1], ts[2]) + ts[3]

IsDate(cell) ==
    /\ Len(cell) = 3
    /\ cell[1] >= 1
    /\ cell[2] \in 1..12
    /\ cell[3] >= 1
    /\ cell[3] <= DaysInMonth(cell[1], cell[2])

\* pd.to_datetime(cell, errors='coerce')
to_datetime(cell) == IF IsDate(cell) THEN cell ELSE NaT

\* (datetime.today() - ts).dt.days; the cells hold dates without a time of
\* day, so the whole days between them and now are the difference of the
\* day numbers (negative for a date in the future).
InvoiceAge(ts) ==
    IF ts = NaT THEN NaN ELSE <<ToOrdinal(TODAY) - ToOrdinal(ts)>>

\* Between with the range not enforced on a row without a date.
Between_NullPasses(ts, lo, hi) ==
    \/ ts = NaT
    \/ /\ lo # NaT
       /\ hi # NaT
       /\ ToOrdinal(lo) <= ToOrdinal(ts)
       /\ ToOrdinal(ts) <= ToOrdinal(hi)

\* Series.between(lo, hi): inclusive on both ends; a comparison with NaT is False.
Between(ts, lo, hi) ==
    /\ ts # NaT
    /\ lo # NaT
    /\ hi # NaT
    /\ ToOrdinal(lo) <= ToOrdinal(ts)
    /\ ToOrdinal(ts) <= ToOrdinal(hi)

----------------------------------------------------------------------------
(* Text: str.lower and str.contains *)

LowerChar(c) ==
    CASE c = "A" -> "a"
      [] c = "B" -> "b"
      [] OTHER -> c

Lower(s) == [i \in 1..Len(s) |-> LowerChar(s[i])]

\* str.contains(q) for a q without regular-expression metacharacters.
Contains(s, q) ==
    \E i \in 1..(Len(s) + 1) :
        /\ i + Len(q) - 1 <= Len(s)
        /\ SubSeq(s, i, i + Len(q) - 1) = q

----------------------------------------------------------------------------
(* Loading the worksheet into df *)

\* Columns of pd.DataFrame(worksheet.get_all_records()): the keys of the
\* records; no record, no column.
Columns(recs) == UNION {DOMAIN recs[i] : i \in 1..Len(recs)}

\* The columns as read, no "Date Created" added.
EnsuredColumns_AsRead(recs) == Columns(recs)

\* Columns after "Ensure columns": a missing "Date Created" is added.
EnsuredColumns(recs) == Columns(recs) \cup {"Date Created"}

\* df[VISIBLE_COLUMNS] raises KeyError unless every visible column is there.
LoadFails(recs) == ~(VisibleSet \subseteq EnsuredColumns(recs))

\* One row of df: the visible columns, the parsed date and the age.
LoadRow(rec) ==
    LET cell == IF "Date Created" \in DOMAIN rec
                THEN rec["Date Created"] ELSE TODAY
        ts == to_datetime(cell)
    IN [c \in VisibleSet \cup {AgeColumn} |->
            IF c = "Date Created" THEN ts
            ELSE IF c = AgeColumn THEN InvoiceAge(ts)
            ELSE rec[c]]

Load(recs) == [i \in 1..Len(recs) |-> LoadRow(recs[i])]

----------------------------------------------------------------------------
(* Filter widgets and filter logic *)

Unique(t, col) == {t[i][col] : i \in 1..Len(t)}

ValidDates(t) == {t[i]["Date Created"] : i \in 1..Len(t)} \ {NaT}

\* Series.min() / Series.max() skip NaT; NaT when there is no date.
date_min(t) ==
    IF ValidDates(t) = {} THEN NaT
    ELSE CHOOSE d \in ValidDates(t) :
            \A e \in ValidDates(t) : ToOrdinal(d) <= ToOrdinal(e)

date_max(t) ==
    IF ValidDates(t) = {} THEN NaT
    ELSE CHOOSE d \in ValidDates(t) :
            \A e \in ValidDates(t) : ToOrdinal(d) >= ToOrdinal(e)

\* The widgets' values when the user touched none of them.
DefaultCriteria(t) ==
    [status_filter  |-> Unique(t, "Status"),
     product_filter |-> Unique(t, "Product"),
     date_range     |-> <<date_min(t), date_max(t)>>,
     search_query   |-> <<>>]

\* Row passes the boolean mask of the filter logic.
PassesMask(r, c) ==
    /\ r["Status"] \in c.status_filter
    /\ r["Product"] \in c.product_filter
    /\ Between(r["Date Created"], c.date_range[1], c.date_range[2])

PassesSearch(r, q) ==
    \/ Contains(Lower(r["Customer name"]), q)
    \/ Contains(Lower(r["Customer email"]), q)

FilterLogic(t, c) ==
    LET Mask(r) == PassesMask(r, c)
        Hit(r) == PassesSearch(r, c.search_query)
        masked == SelectSeq(t, Mask)
    IN IF c.search_query # <<>> THEN SelectSeq(masked, Hit) ELSE masked

----------------------------------------------------------------------------
(* Aggregations over the filtered view *)

RECURSIVE SumPrice(_)
SumPrice(t) ==
    IF t = <<>> THEN 0 ELSE t[1]["Price"] + SumPrice(Tail(t))

\* dt.to_period("M").astype(str): "YYYY-MM", and "NaT" for NaT.
Month(ts) == IF ts = NaT THEN <<>> ELSE <<ts[1], ts[2]>>

\* chart_df.groupby("Month")["Price"].sum(): one total per month label.
monthly_sales(t) ==
    LET labels == {Month(t[i]["Date Created"]) : i \in 1..Len(t)}
    IN [m \in labels |->
            LET InMonth(r) == Month(r["Date Created"]) = m
            IN SumPrice(SelectSeq(t, InMonth))]

ChartShown(t) == DOMAIN monthly_sales(t) # {}

\* Comparisons of the age column; a comparison with NaN is False.
AgeLe(r, n) == r[AgeColumn] # NaN /\ r[AgeColumn][1] <= n
AgeGt(r, n) == r[AgeColumn] # NaN /\ r[AgeColumn][1] > n

\* The 8-21 bucket starting at 7, and the 22-30 bucket ending before 30.
In_age_21_From7(r) == r[AgeColumn] # NaN /\ r[AgeColumn][1] >= 7 /\ AgeLe(r, 21)
In_age_30_Before30(r) == AgeGt(r, 21) /\ r[AgeColumn] # NaN /\ r[AgeColumn][1] < 30

In_age_7(r) == AgeLe(r, 7)
In_age_21(r) == AgeGt(r, 7) /\ AgeLe(r, 21)
In_age_30(r) == AgeGt(r, 21) /\ AgeLe(r, 30)
In_age_overdue(r) == AgeGt(r, 30)

age_7(t) == SelectSeq(t, In_age_7)
age_21(t) == SelectSeq(t, In_age_21)
age_30(t) == SelectSeq(t, In_age_30)
age_overdue(t) == SelectSeq(t, In_age_overdue)

\* Rows listed under "Notifications for 30+ Days Overdue".
Notifications(t) == age_overdue(t)

----------------------------------------------------------------------------
(* Script runs *)

\* State of the widgets when the script stopped before rendering them.
NoCriteria ==
    [status_filter |-> {}, product_filter |-> {},
     date_range |-> <<>>, search_query |-> <<>>]

\* Text typed in "Search Customer Name or Email".
SearchInputs == {<<>>, <<"B">>, <<"z">>}

\* Values the user can bring the filter widgets to.  The date picker hands
\* back one date while the user is still choosing the second.
DateChoices(t) == IF ValidDates(t) = {} THEN {NaT} ELSE ValidDates(t)

DateRanges(t) ==
    {<<a, b>> : a \in DateChoices(t), b \in DateChoices(t)}
        \cup {<<date_min(t)>>}

WidgetChoices(t) ==
    [status_filter  : SUBSET Unique(t, "Status"),
     product_filter : SUBSET Unique(t, "Product"),
     date_range     : DateRanges(t),
     search_query   : {Lower(q) : q \in SearchInputs}]

\* The run wrote nothing to the worksheet.  lastWrite keeps the button that
\* was pressed, whether a call to the store raised, whether the user edited
\* the grid, the worksheet as the run found it, the worksheet the write
\* was to produce, and the cells handed to append_row.
NoWrite ==
    [op |-> "none", failed |-> FALSE, edited |-> FALSE,
     header |-> header, rows |-> rows,
     targetHeader |-> header, target |-> rows, cells |-> <<>>]

\* The script stops with an exception before any button is rendered:
\* KeyError from df[VISIBLE_COLUMNS]; IndexError from date_range[1] when the
\* date picker holds one date; and, for a table without one valid date,
\* st.date_input(value=(NaT, NaT)), which the build either refuses
\* (DateInputError) or hands through (the run goes on, no row being between
\* NaT and NaT).
Abort(exc, t, c) ==
    /\ error' = exc
    /\ df' = t
    /\ criteria' = c
    /\ filtered_df' = <<>>
    /\ lastWrite' = NoWrite
    /\ UNCHANGED <<header, rows>>

\* The script renders the dashboard for widget values c.
Show(t, c) ==
    /\ error' = "none"
    /\ df' = t
    /\ criteria' = c
    /\ filtered_df' = FilterLogic(t, c)

\* Widget values of a session: the defaults with one widget changed.
SessionChoices(t) ==
    LET d == DefaultCriteria(t)
    IN {[d EXCEPT !.status_filter = v] : v \in SUBSET Unique(t, "Status")}
        \cup {[d EXCEPT !.product_filter = v] : v \in SUBSET Unique(t, "Product")}
        \cup {[d EXCEPT !.date_range = v] : v \in DateRanges(t)}
        \cup {[d EXCEPT !.search_query = Lower(q)] : q \in SearchInputs}

\* A run in which no button is pressed (lines 35-107).  The widgets hold any
\* of their values (any = TRUE) or one of the values of a session.
Run(any) ==
    \/ /\ LoadFails(rows)
       /\ Abort("KeyError", <<>>, NoCriteria)
    \/ /\ ~LoadFails(rows)
       /\ \E t \in {Load(rows)} :
            /\ date_min(t) = NaT
            /\ Abort("DateInputError", t, NoCriteria)
    \/ /\ ~LoadFails(rows)
       /\ \E t \in {Load(rows)} :
          \E c \in (IF any THEN WidgetChoices(t) ELSE SessionChoices(t)) :
            /\ Len(c.date_range) = 1
            /\ Abort("IndexError", t, c)
    \/ /\ ~LoadFails(rows)
       /\ \E t \in {Load(rows)} :
          \E c \in (IF any THEN WidgetChoices(t) ELSE SessionChoices(t)) :
            /\ Len(c.date_range) = 2
            /\ Show(t, c)
            /\ lastWrite' = NoWrite
            /\ UNCHANGED <<header, rows>>

\* The first run of the script on a worksheet, with any widget values.
FirstRun == Run(TRUE)

\* A run of a session in which no button is pressed.
ViewRun == Run(FALSE)

----------------------------------------------------------------------------
(* Worksheets the runs start from *)

Row(name, email, product, price, status, date) ==
    [c \in VisibleSet |->
        CASE c = "Customer name" -> name
          [] c = "Customer email" -> email
          [] c = "Product" -> product
          [] c = "Product Description" -> "desc"
          [] c = "Price" -> price
          [] c = "Invoice Link" -> "link"
          [] c = "Status" -> status
          [] c = "Date Created" -> date]

Al == <<"A", "l">>
Bo == <<"B", "o">>
AlMail == <<"a", "l", "@">>
BoMail == <<"b", "o", "@">>

\* Invoices of every age around the bucket boundaries, one dated in the
\* future and one whose date cell is no date.
SampleRows ==
    {Row(Al, AlMail, "Widget", 100, "Pending", <<2026, 11, 7>>),
     Row(Al, AlMail, "Widget", 50, "Paid", <<2026, 10, 30>>),
     Row(Bo, BoMail, "Gadget", 25, "Pending", <<2026, 10, 29>>),
     Row(Al, AlMail, "Gadget", 100, "Paid", <<2026, 10, 16>>),
     Row(Bo, BoMail, "Widget", 50, "Pending", <<2026, 10, 15>>),
     Row(Al, AlMail, "Widget", 25, "Overdue", <<2026, 10, 7>>),
     Row(Bo, BoMail, "Gadget", 100, "Overdue", <<2026, 10, 6>>),
     Row(Al, AlMail, "Widget", 50, "Pending", <<2026, 13, 1>>)}

Without(s, x) == SelectSeq(s, LAMBDA e : e # x)

\* Header rows: the eight columns; "Date Created" missing; "Status"
\* missing; one more column after the eight.
HeaderVariants ==
    {VISIBLE_COLUMNS,
     Without(VISIBLE_COLUMNS, "Date Created"),
     Without(VISIBLE_COLUMNS, "Status"),
     VISIBLE_COLUMNS \o <<"Notes">>}

\* The record of a sample row in a worksheet with header hdr.
UnderHeader(hdr, r) ==
    [c \in Range(hdr) |-> IF c \in DOMAIN r THEN r[c] ELSE ""]

Tables(samples, lo, hi) == UNION {[1..n -> samples] : n \in lo..hi}

----------------------------------------------------------------------------
(* Writes to the worksheet *)

\* Values of the widgets in a run started by a button: the values of the
\* page the button was on, or the defaults when the reloaded table no
\* longer offers them.
Widgets(t) ==
    IF criteria \in WidgetChoices(t) THEN criteria ELSE DefaultCriteria(t)

\* filtered_df.drop(columns=["Invoice Age (Days)"])
DropAge(r) == [c \in VisibleSet |-> r[c]]

Display(view) == [i \in 1..Len(view) |-> DropAge(view[i])]

\* What the user does in the data editor before pressing Save: nothing,
\* delete one row, or mark the first row as paid.
Edits(disp) ==
    {[kind |-> "none", i |-> 0]}
        \cup {[kind |-> "delete", i |-> i] : i \in 1..Len(disp)}
        \cup {[kind |-> "paid", i |-> i] : i \in 1..Len(disp) \cap {1}}

data_editor(disp, e) ==
    CASE e.kind = "none" -> disp
      [] e.kind = "delete" ->
            SubSeq(disp, 1, e.i - 1) \o SubSeq(disp, e.i + 1, Len(disp))
      [] e.kind = "paid" -> [disp EXCEPT ![e.i]["Status"] = "Paid"]

\* The worksheet after the calls of "Save Changes to Sheet" when call number
\* k raises (k = 0: none does): call 1 is clear(), call 2 appends the
\* header, call 2 + j appends row j.  Any call to the store can raise; a
\* call that raised changed nothing, the calls before it are done.
SheetAfterSave(hdr, rws, disp, k) ==
    IF k = 1 THEN [header |-> hdr, rows |-> rws]
    ELSE IF k = 2 THEN [header |-> <<>>, rows |-> <<>>]
    ELSE IF k = 0 THEN [header |-> VISIBLE_COLUMNS, rows |-> disp]
    ELSE [header |-> VISIBLE_COLUMNS, rows |-> SubSeq(disp, 1, k - 3)]

\* A run in which "Save Changes to Sheet" was pressed (lines 35-118).
SaveRun ==
    /\ error = "none"
    /\ df # <<>>
    /\ ~LoadFails(rows)
    /\ \E t \in {Load(rows)} : \E c \in {Widgets(t)} :
       \E view \in {FilterLogic(t, c)} : \E e \in Edits(Display(view)) :
       \E filtered_display \in {data_editor(Display(view), e)} :
       \E k \in 0..(Len(filtered_display) + 2) :
       \E after \in {SheetAfterSave(header, rows, filtered_display, k)} :
            /\ error' = "none"
            /\ df' = t
            /\ criteria' = c
            /\ filtered_df' = view
            /\ header' = after.header
            /\ rows' = after.rows
            /\ lastWrite' =
                    [op |-> "save", failed |-> (k # 0),
                     edited |-> (filtered_display # Display(view)),
                     header |-> header, rows |-> rows,
                     targetHeader |-> VISIBLE_COLUMNS,
                     target |-> filtered_display, cells |-> <<>>]

\* Values typed in the "Add New Invoice" form.
FormInputs ==
    {[name |-> Al, email |-> AlMail, product |-> "Widget",
      description |-> "desc", price |-> 10, link |-> "link",
      status |-> "Pending"],
     [name |-> Bo, email |-> BoMail, product |-> "Gadget",
      description |-> "desc", price |-> -5, link |-> "link",
      status |-> "Overdue"]}

\* datetime.today().strftime('%Y-%m-%d') and the list handed to append_row.
new_row(f) ==
    <<f.name, f.email, f.product, f.description, f.price, f.link, f.status,
      TODAY>>

\* The record get_all_records() yields for a row of cells under header hdr:
\* cell i is in column hdr[i], a column without a cell is empty, and a cell
\* beyond the header is in a column without a name.
RowRecord(hdr, cells) ==
    LET Pos(c) == CHOOSE i \in 1..Len(hdr) : hdr[i] = c
        over == IF Len(cells) > Len(hdr) THEN {""} ELSE {}
    IN [c \in Range(hdr) \cup over |->
            IF c \in Range(hdr)
            THEN (IF Pos(c) <= Len(cells) THEN cells[Pos(c)] ELSE "")
            ELSE cells[Len(hdr) + 1]]

\* append_row that skips a row the sheet already holds.
append_row_Unique(hdr, rws, cells) ==
    IF RowRecord(hdr, cells) \in Range(rws) THEN rws
    ELSE Append(rws, RowRecord(hdr, cells))

\* worksheet.append_row(values): one row after the last row of the sheet.
append_row(hdr, rws, cells) == Append(rws, RowRecord(hdr, cells))

\* A run in which the "Add Invoice" form was submitted (lines 35-136).
AddRun ==
    /\ error = "none"
    /\ df # <<>>
    /\ ~LoadFails(rows)
    /\ Len(rows) < MaxRows
    /\ \E t \in {Load(rows)} : \E c \in {Widgets(t)} :
       \E f \in FormInputs : \E fails \in BOOLEAN :
       \E target \in {append_row(header, rows, new_row(f))} :
            /\ Show(t, c)
            /\ rows' = IF fails THEN rows ELSE target
            /\ UNCHANGED header
            /\ lastWrite' =
                    [op |-> "add", failed |-> fails, edited |-> FALSE,
                     header |-> header, rows |-> rows,
                     targetHeader |-> header, target |-> target,
                     cells |-> new_row(f)]

\* Worksheets a session starts from: one invoice.
SessionRows ==
    {Row(Bo, BoMail, "Gadget", 100, "Overdue", <<2026, 10, 6>>),
     Row(Al, AlMail, "Widget", 50, "Pending", <<2026, 13, 1>>)}

\* No run of the script has happened yet.
NotYetRun == df = <<>> /\ error = "none"

Fresh ==
    /\ df = <<>>
    /\ criteria = NoCriteria
    /\ filtered_df = <<>>
    /\ error = "none"
    /\ lastWrite = NoWrite

Init ==
    /\ header \in HeaderVariants
    /\ \E r \in SessionRows : rows = <<UnderHeader(header, r)>>
    /\ Fresh

Next == ViewRun \/ SaveRun \/ AddRun

Spec == Init /\ [][Next]_vars

\* The first run of the script on a worksheet, for any worksheet of the
\* samples and any values of the filter widgets.
InitView ==
    /\ header \in HeaderVariants
    /\ \E t \in Tables(SampleRows, 0, MaxTable) :
            rows = [i \in 1..Len(t) |-> UnderHeader(header, t[i])]
    /\ Fresh

NextView == NotYetRun /\ FirstRun

SpecView == InitView /\ [][NextView]_vars

----------------------------------------------------------------------------
(* Properties *)

\* A run of the script has rendered the dashboard.
Rendered == error = "none" /\ df # <<>>

\* Record r of the worksheet before the write is in the worksheet now.
StillInStore(r) ==
    \E j \in 1..Len(rows) :
        \A c \in VisibleSet \cap DOMAIN r :
            c \in DOMAIN rows[j] /\ rows[j][c] = r[c]

\* C1: after a completed Save in which the user edited no row, every record
\* the worksheet held before the save is still in it, also the records the
\* active filter left out of the grid.
C1_SaveKeepsAllRecords ==
    (/\ lastWrite.op = "save"
     /\ ~lastWrite.failed
     /\ ~lastWrite.edited
     /\ date_min(df) # NaT)
        => \A i \in 1..Len(lastWrite.rows) : StillInStore(lastWrite.rows[i])

\* C2: when a call to the store raises during a Save or an Add, the
\* worksheet holds exactly the rows it held before the write or exactly
\* the rows the write was to produce, and the in-memory table is the one
\* loaded before the write.
C2_WritesAllOrNothing ==
    (lastWrite.op \in {"save", "add"} /\ lastWrite.failed)
        => /\ \/ (header = lastWrite.header /\ rows = lastWrite.rows)
              \/ (header = lastWrite.targetHeader /\ rows = lastWrite.target)
           /\ df = Load(lastWrite.rows)

\* C3: a completed Add grows the worksheet by exactly one row, the row is
\* the last one and holds the cells of the form, and the rows that were
\* there are unchanged and in their order; an invoice equal to an existing
\* row is appended all the same.
C3_AppendAddsOneRowAtEnd ==
    (lastWrite.op = "add" /\ ~lastWrite.failed)
        => /\ header = lastWrite.header
           /\ Len(rows) = Len(lastWrite.rows) + 1
           /\ \A i \in 1..Len(lastWrite.rows) : rows[i] = lastWrite.rows[i]
           /\ \A i \in 1..Len(header) :
                i <= Len(lastWrite.cells)
                    => rows[Len(rows)][header[i]] = lastWrite.cells[i]

\* C3 witness: a completed Add of an invoice equal to a row already there.
C3_DuplicateAppended ==
    /\ lastWrite.op = "add"
    /\ ~lastWrite.failed
    /\ Len(rows) >= 2
    /\ \E i \in 1..(Len(rows) - 1) : rows[i] = rows[Len(rows)]

\* C4: with every widget at its default (all statuses, all products, the
\* whole date range, no search text) the filtered view is the full table,
\* same records in the same order, also when a date cell did not parse.
C4_DefaultFilterIsIdentity ==
    (/\ Rendered
     /\ date_min(df) # NaT
     /\ criteria = DefaultCriteria(df))
        => filtered_df = df

\* The date range of the widgets is a pair of dates with the first after
\* the second.
ReversedRange ==
    /\ Len(criteria.date_range) = 2
    /\ criteria.date_range[1] # NaT
    /\ criteria.date_range[2] # NaT
    /\ ToOrdinal(criteria.date_range[1]) > ToOrdinal(criteria.date_range[2])

Swapped(c) ==
    [c EXCEPT !.date_range = <<c.date_range[2], c.date_range[1]>>]

BucketCount(r) ==
    Cardinality({b \in {"7", "21", "30", "overdue"} :
        \/ b = "7" /\ In_age_7(r)
        \/ b = "21" /\ In_age_21(r)
        \/ b = "30" /\ In_age_30(r)
        \/ b = "overdue" /\ In_age_overdue(r)})

HasAge(r) == r[AgeColumn] # NaN

\* C6: every record of the view with an age is in exactly one of the four
\* buckets, a record without an age is in none, and the four counts add
\* up to the number of records of the view that have an age.
C6_BucketsPartition ==
    Rendered
        => /\ \A i \in 1..Len(filtered_df) :
                HasAge(filtered_df[i]) => BucketCount(filtered_df[i]) = 1
           /\ \A i \in 1..Len(df) :
                ~HasAge(df[i]) => BucketCount(df[i]) = 0
           /\ Len(age_7(filtered_df)) + Len(age_21(filtered_df))
                + Len(age_30(filtered_df)) + Len(age_overdue(filtered_df))
                = Len(SelectSeq(filtered_df, HasAge))

\* C6 witness: a view of two invoices, one dated in the future and counted
\* in 0-7 days, the other in another bucket, over a table read from a
\* worksheet that can also hold rows without an age.
C6_FutureDateInFirstBucket ==
    /\ Rendered
    /\ Len(filtered_df) = 2
    /\ \E i \in 1..2 :
            /\ filtered_df[i][AgeColumn][1] < 0
            /\ In_age_7(filtered_df[i])
    /\ Len(age_7(filtered_df)) = 1

AgeIs(r, n) == HasAge(r) /\ r[AgeColumn][1] = n

\* C7: age 7 is in the 0-7 bucket, 8 and 21 in 8-21, 22 and 30 in 22-30 and
\* 31 in 30+; the notifications list exactly the records older than 30 days.
C7_BucketBoundaries ==
    Rendered
        => /\ \A i \in 1..Len(filtered_df) :
                LET r == filtered_df[i]
                IN /\ AgeIs(r, 7) => r \in Range(age_7(filtered_df))
                   /\ (AgeIs(r, 8) \/ AgeIs(r, 21))
                        => r \in Range(age_21(filtered_df))
                   /\ (AgeIs(r, 22) \/ AgeIs(r, 30))
                        => r \in Range(age_30(filtered_df))
                   /\ AgeIs(r, 31) => r \in Range(age_overdue(filtered_df))
           /\ Range(Notifications(filtered_df))
                = {r \in Range(filtered_df) : HasAge(r) /\ r[AgeColumn][1] > 30}

\* C7 witness: a view with an invoice of 30 days and one of 31 days, of
\* which the notifications list one.
C7_ThirtyAndThirtyOne ==
    /\ Rendered
    /\ \E i, j \in 1..Len(filtered_df) :
            AgeIs(filtered_df[i], 30) /\ AgeIs(filtered_df[j], 31)
    /\ Len(Notifications(filtered_df)) = 1

RECURSIVE SumTotals(_, _)
SumTotals(f, S) ==
    IF S = {} THEN 0
    ELSE LET m == CHOOSE x \in S : TRUE
         IN f[m] + SumTotals(f, S \ {m})

HasDate(r) == r["Date Created"] # NaT

\* C8: the monthly revenue has one total per (year, month) of the view and
\* none for records without a date, the totals add up to the prices of the
\* records of the view that have a date, and an empty view gives no total
\* and no chart.
C8_MonthlyTotalsSumToRevenue ==
    Rendered
        => LET ms == monthly_sales(filtered_df)
           IN /\ Month(NaT) \notin DOMAIN ms
              /\ DOMAIN ms = {<<r["Date Created"][1], r["Date Created"][2]>> :
                                r \in {x \in Range(filtered_df) : HasDate(x)}}
              /\ SumTotals(ms, DOMAIN ms)
                    = SumPrice(SelectSeq(filtered_df, HasDate))
              /\ filtered_df = <<>>
                    => (DOMAIN ms = {} /\ ~ChartShown(filtered_df))

\* C8 witness: a view of two invoices of two months.
C8_TwoMonths ==
    /\ Rendered
    /\ Len(filtered_df) = 2
    /\ Cardinality(DOMAIN monthly_sales(filtered_df)) = 2

\* A run has happened, on a worksheet without column col.
RanWithout(col) ==
    /\ ~NotYetRun
    /\ col \notin Columns(lastWrite.rows)

LoadRefused ==
    /\ error = "KeyError"
    /\ df = <<>>
    /\ filtered_df = <<>>
    /\ lastWrite.op = "none"
    /\ header = lastWrite.header
    /\ rows = lastWrite.rows

\* C9: a run on a worksheet that lacks one of the eight columns stops with
\* the load error and gives no view, no metrics and no write.
C9_MissingColumnFailsLoad ==
    \A col \in VisibleSet : RanWithout(col) => LoadRefused

\* C9 as amended: the same for the seven columns other than "Date Created";
\* a worksheet that lacks only "Date Created" loads, every row dated today.
C9_MissingColumnButDateFailsLoad ==
    /\ \A col \in VisibleSet \ {"Date Created"} : RanWithout(col) => LoadRefused
    /\ (/\ RanWithout("Date Created")
        /\ VisibleSet \ {"Date Created"} \subseteq Columns(lastWrite.rows))
            => /\ error # "KeyError"
               /\ \A i \in 1..Len(df) : df[i]["Date Created"] = TODAY

\* C9 witness: a run on a worksheet with rows and no "Status" column.
C9_RanWithoutStatus ==
    /\ RanWithout("Status")
    /\ lastWrite.rows # <<>>
    /\ error = "KeyError"

\* C10: no row of the worksheet has a negative price.
C10_PriceNonNegative ==
    \A i \in 1..Len(rows) :
        "Price" \in DOMAIN rows[i] => rows[i]["Price"] >= 0

====
